---- MODULE Spec2Model ----
(***************************************************************************)
(* nodelens: the watch / debounce / restart core of src/src/watcher.js,    *)
(* with the parts of src/src/commands.js (loadConfig, DEFAULT_CONFIG) and  *)
(* src/src/utils/logger.js (setLogStyle, shouldPrint) it calls.            *)
(*                                                                         *)
(* One action per handler: a file event of the project watcher, a file     *)
(* event of the config watcher, the expiry of each kind of timer, each     *)
(* console command, a child's exit, and the passing of time.  Handlers run *)
(* to completion (Node's event loop), so each is one atomic step.          *)
(*                                                                         *)
(* Spec is the whole program on every input.  The properties are checked   *)
(* under specifications that draw the same actions' inputs from smaller    *)
(* sets: SpecRestart (timers, restarts, children), SpecMatch (the event    *)
(* filter), SpecConfig (reloads and the console), SpecSwap (the rebuilt    *)
(* project watcher) and SpecGlob (the pattern matcher on every short       *)
(* pattern and path).                                                      *)
(***************************************************************************)
EXTENDS Integers, Sequences, FiniteSets, TLC

\* ------------------------------------------------------------------------
\* Bounds of the model
\* ------------------------------------------------------------------------

\* No more than MaxTimers restart timers (debounce timers and restart-delay
\* one-shots) are pending at once.
MaxTimers == 2

\* No more than MaxOrphans children that `server` no longer refers to are
\* alive at once.
MaxOrphans == 1

\* Patterns of up to MaxPatternLen characters are compiled and tested against
\* paths of up to MaxPathLen characters.
MaxPatternLen == 3

MaxPathLen == 3

\* ------------------------------------------------------------------------
\* Strings.  A string is named by a TLA+ string; Chars gives its characters.
\* ------------------------------------------------------------------------

Chars(s) ==
  CASE s = "" -> <<>>
    [] s = " " -> <<" ">>
    [] s = "all" -> <<"a", "l", "l">>
    [] s = "node_modules" -> <<"n", "o", "d", "e", "_", "m", "o", "d", "u", "l", "e", "s">>
    [] s = ".git" -> <<".", "g", "i", "t">>
    [] s = "dist" -> <<"d", "i", "s", "t">>
    [] s = "build" -> <<"b", "u", "i", "l", "d">>
    [] s = "temp" -> <<"t", "e", "m", "p">>
    [] s = "logs" -> <<"l", "o", "g", "s">>
    [] s = ".nodelens" -> <<".", "n", "o", "d", "e", "l", "e", "n", "s">>
    [] s = "nl.config.json" -> <<"n", "l", ".", "c", "o", "n", "f", "i", "g", ".", "j", "s", "o", "n">>
    [] s = "src" -> <<"s", "r", "c">>
    [] s = "*.js" -> <<"*", ".", "j", "s">>
    [] s = "src/*" -> <<"s", "r", "c", "/", "*">>
    [] s = "null" -> <<"n", "u", "l", "l">>
    [] s = "fast" -> <<"f", "a", "s", "t">>
    [] s = "yes" -> <<"y", "e", "s">>
    [] s = "a.js" -> <<"a", ".", "j", "s">>
    [] s = "src/b.js" -> <<"s", "r", "c", "/", "b", ".", "j", "s">>
    [] s = "src\\b.js" -> <<"s", "r", "c", "\\", "b", ".", "j", "s">>
    [] s = "dist/o.js" -> <<"d", "i", "s", "t", "/", "o", ".", "j", "s">>
    [] s = ".nodelens/nl.config.json" -> <<".", "n", "o", "d", "e", "l", "e", "n", "s", "/", "n", "l", ".", "c", "o", "n", "f", "i", "g", ".", "j", "s", "o", "n">>
    [] s = ".nodelens/nodelens.txt" -> <<".", "n", "o", "d", "e", "l", "e", "n", "s", "/", "n", "o", "d", "e", "l", "e", "n", "s", ".", "t", "x", "t">>
    [] s = "docs" -> <<"d", "o", "c", "s">>
    [] s = "clear" -> <<"c", "l", "e", "a", "r">>
    [] s = "cls" -> <<"c", "l", "s">>
    [] s = "help" -> <<"h", "e", "l", "p">>
    [] s = "h" -> <<"h">>
    [] s = "?" -> <<"?">>
    [] s = "status" -> <<"s", "t", "a", "t", "u", "s">>
    [] s = "stats" -> <<"s", "t", "a", "t", "s">>
    [] s = "last-change" -> <<"l", "a", "s", "t", "-", "c", "h", "a", "n", "g", "e">>
    [] s = "lc" -> <<"l", "c">>
    [] s = "silent" -> <<"s", "i", "l", "e", "n", "t">>
    [] s = "on" -> <<"o", "n">>
    [] s = "off" -> <<"o", "f", "f">>
    [] s = "rs" -> <<"r", "s">>
    [] s = "stop" -> <<"s", "t", "o", "p">>
    [] s = "x" -> <<"x">>
    [] s = " Status " -> <<" ", "S", "t", "a", "t", "u", "s", " ">>
    [] s = "LC" -> <<"L", "C">>
    [] s = "restart" -> <<"r", "e", "s", "t", "a", "r", "t">>
    [] s = "silentx" -> <<"s", "i", "l", "e", "n", "t", "x">>
    [] s = "silent loud" -> <<"s", "i", "l", "e", "n", "t", " ", "l", "o", "u", "d">>
    [] s = "silent on" -> <<"s", "i", "l", "e", "n", "t", " ", "o", "n">>
    [] s = "silent off" -> <<"s", "i", "l", "e", "n", "t", " ", "o", "f", "f">>
    [] s = "Silent OFF" -> <<"S", "i", "l", "e", "n", "t", " ", "O", "F", "F">>

\* ------------------------------------------------------------------------
\* JSON / JavaScript values: a tag and one payload field per type
\* ------------------------------------------------------------------------

Undef == [t |-> "undefined", n |-> 0, s |-> "", b |-> FALSE, l |-> <<>>]
Null == [t |-> "null", n |-> 0, s |-> "", b |-> FALSE, l |-> <<>>]
Num(n) == [t |-> "number", n |-> n, s |-> "", b |-> FALSE, l |-> <<>>]
Str(s) == [t |-> "string", n |-> 0, s |-> s, b |-> FALSE, l |-> <<>>]
Bool(b) == [t |-> "boolean", n |-> 0, s |-> "", b |-> b, l |-> <<>>]
\* An array of strings.
List(l) == [t |-> "array", n |-> 0, s |-> "", b |-> FALSE, l |-> l]

\* JavaScript's ToBoolean.
Truthy(v) ==
  CASE v.t = "boolean" -> v.b
    [] v.t = "number" -> v.n # 0
    [] v.t = "string" -> v.s # ""
    [] v.t = "array" -> TRUE
    [] OTHER -> FALSE

\* String(pattern) of patternToRegExp, for the values a config field can hold.
ToStringJS(v) ==
  CASE v.t = "string" -> v.s
    [] v.t = "null" -> "null"

\* ------------------------------------------------------------------------
\* commands.js: DEFAULT_CONFIG
\* ------------------------------------------------------------------------

DEFAULT_CONFIG ==
  [watch |-> Str("all"),
   ignore |-> List(<<"node_modules", ".git", "dist", "build", "temp", "logs">>),
   debounceDelay |-> Num(225),
   restartDelay |-> Num(0),
   logLabel |-> Bool(TRUE),
   logTimestamp |-> Bool(FALSE),
   silentLogs |-> Bool(FALSE),
   saveLogs |-> Bool(FALSE)]

\* watcher.js: the tool's own files, always ignored.
INTERNAL_ALWAYS_IGNORE == <<".nodelens", "nl.config.json">>

\* ------------------------------------------------------------------------
\* Time
\* ------------------------------------------------------------------------

\* Time passes in steps of at most TickMs milliseconds: the default debounce
\* delay, which is also the delay of the config timer.  The delays of the
\* documents below are multiples of it.
TickMs == DEFAULT_CONFIG.debounceDelay.n

\* ------------------------------------------------------------------------
\* watcher.js: toForwardSlashes, patternToRegExp, RegExp.prototype.test
\* ------------------------------------------------------------------------

\* p.replace(/\\/g, "/") on a string's characters.
toForwardSlashes(cs) ==
  [i \in 1..Len(cs) |-> IF cs[i] = "\\" THEN "/" ELSE cs[i]]

RECURSIVE TrimLeft(_)
TrimLeft(cs) ==
  IF cs # <<>> /\ Head(cs) = " " THEN TrimLeft(Tail(cs)) ELSE cs

RECURSIVE TrimRight(_)
TrimRight(cs) ==
  IF cs # <<>> /\ cs[Len(cs)] = " " THEN TrimRight(SubSeq(cs, 1, Len(cs) - 1)) ELSE cs

\* String.prototype.trim
Trim(cs) == TrimRight(TrimLeft(cs))

\* A compiled regular expression is a sequence of tokens:
\*   "lit" c   the character c,  "any"  `.`,  "anystar"  `.*`,  "never"  /.^/
Lit(c) == [k |-> "lit", c |-> c]
AnyChar == [k |-> "any", c |-> ""]
AnyStar == [k |-> "anystar", c |-> ""]
Never == [k |-> "never", c |-> ""]

\* A variant that leaves `.` unescaped.
GlobTokensDotOpen(cs) ==
  [i \in 1..Len(cs) |->
     IF cs[i] = "*" THEN AnyStar ELSE IF cs[i] = "." THEN AnyChar ELSE Lit(cs[i])]

\* The glob branch: every metacharacter but `*` escaped, then `*` -> `.*`.
GlobTokens(cs) ==
  [i \in 1..Len(cs) |-> IF cs[i] = "*" THEN AnyStar ELSE Lit(cs[i])]

\* new RegExp(str) for a string of letters, digits, `_`, `-`, `/` and `.`:
\* `.` matches any character, every other character itself.
RegexTokens(cs) ==
  [i \in 1..Len(cs) |-> IF cs[i] = "." THEN AnyChar ELSE Lit(cs[i])]

\* str.includes("*")
HasStar(cs) == \E i \in 1..Len(cs) : cs[i] = "*"

\* patternToRegExp on the characters of String(pattern).
Compile(cs) ==
  LET str == Trim(cs)
  IN IF str = <<>> THEN <<Never>>
     ELSE IF HasStar(str) THEN GlobTokens(str)
     ELSE RegexTokens(str)

patternToRegExp(pattern) == Compile(Chars(pattern))

\* The tokens from position ti on match cs from position si on (a prefix of it).
RECURSIVE MatchFrom(_, _, _, _)
MatchFrom(toks, ti, cs, si) ==
  IF ti > Len(toks) THEN TRUE
  ELSE LET tk == toks[ti]
       IN CASE tk.k = "lit" ->
                 si <= Len(cs) /\ cs[si] = tk.c /\ MatchFrom(toks, ti + 1, cs, si + 1)
            [] tk.k = "any" ->
                 si <= Len(cs) /\ MatchFrom(toks, ti + 1, cs, si + 1)
            [] tk.k = "anystar" ->
                 \E j \in si..(Len(cs) + 1) : MatchFrom(toks, ti + 1, cs, j)
            [] OTHER -> FALSE

\* re.test(rel): unanchored, a match may start anywhere.
Test(toks, cs) == \E i \in 1..(Len(cs) + 1) : MatchFrom(toks, 1, cs, i)

\* list.map(patternToRegExp).some(re => re.test(rel))
SomeMatch(patterns, rel) ==
  \E i \in 1..Len(patterns) : Test(patternToRegExp(patterns[i]), rel)

\* ------------------------------------------------------------------------
\* The persisted document .nodelens/nl.config.json, as loadConfig finds it
\* ------------------------------------------------------------------------

\* kind: "missing"  no file;  "syntax"  JSON.parse throws;  "null"  the JSON
\* text null (reading config.logLabel throws inside the try);  "falsy"  a
\* falsy JSON scalar (0, false, "");  "scalar"  a truthy JSON scalar (5, true,
\* "x");  "object"  a JSON object with the fields given (Undef: key absent).
Doc(kind, watch, ignore, debounceDelay, restartDelay, silentLogs, saveLogs) ==
  [kind |-> kind, watch |-> watch, ignore |-> ignore,
   debounceDelay |-> debounceDelay, restartDelay |-> restartDelay,
   logLabel |-> Undef, logTimestamp |-> Undef,
   silentLogs |-> silentLogs, saveLogs |-> saveLogs]

NoFields(kind) == Doc(kind, Undef, Undef, Undef, Undef, Undef, Undef)

\* The documents the model draws from.
\* {}
DocEmpty == NoFields("object")

\* Both delays set, to two ticks.
DocSlow == Doc("object", Undef, Undef, Num(450), Num(450), Undef, Undef)

\* A watch list and an ignore list that one path can both match; silent mode on.
DocBoth ==
  Doc("object", List(<<"*.js">>), List(<<"src/*">>), Undef, Undef, Bool(TRUE), Undef)

\* Nothing ignored by the user; silent mode off, logs saved.
DocOpen ==
  Doc("object", List(<<"src", "*.js">>), List(<<>>), Undef, Undef, Bool(FALSE), Bool(TRUE))

\* No field holds a value of its type.
DocMalformed ==
  Doc("object", Str("src"), Str("dist"), Str("fast"), Num(-5), Str("yes"), Null)

ObjectDocs == {DocEmpty, DocSlow, DocBoth, DocOpen, DocMalformed}

\* The documents a reload cannot use, and the truthy scalar, which it can.
DocMissing == NoFields("missing")
DocSyntax == NoFields("syntax")
DocNull == NoFields("null")
DocFalsy == NoFields("falsy")
DocScalar == NoFields("scalar")

Docs == ObjectDocs \cup {DocMissing, DocSyntax, DocNull, DocFalsy, DocScalar}

\* ------------------------------------------------------------------------
\* logger.js
\* ------------------------------------------------------------------------

\* The module's state as loaded: logLabel, logTimestamp, silentLogs, logFilePath
\* (logFilePath: whether it holds the path or null).
LoggerInit ==
  [logLabel |-> TRUE, logTimestamp |-> FALSE, silentLogs |-> FALSE, logFilePath |-> FALSE]

\* setLogStyle(options): each option applies only when it is a boolean.
setLogStyle(lg, o) ==
  [logLabel |-> IF o.logLabel.t = "boolean" THEN o.logLabel.b ELSE lg.logLabel,
   logTimestamp |-> IF o.logTimestamp.t = "boolean" THEN o.logTimestamp.b ELSE lg.logTimestamp,
   silentLogs |-> IF o.silentLogs.t = "boolean" THEN o.silentLogs.b ELSE lg.silentLogs,
   logFilePath |-> IF o.saveLogs.t = "boolean" THEN o.saveLogs.b ELSE lg.logFilePath]

\* A variant that hides warnings too in silent mode.
shouldPrintErrorsOnly(lg, label) ==
  IF lg.silentLogs THEN label = "ERROR" ELSE TRUE

shouldPrint(lg, label) ==
  IF lg.silentLogs THEN label \in {"ERROR", "WARN"} ELSE TRUE

\* One call of log.error / warn / info / success: what it was, whether it was
\* printed to the console, whether it was appended to the log file.
LogCall(lg, label, msg) ==
  [label |-> label, msg |-> msg, con |-> shouldPrint(lg, label), file |-> lg.logFilePath]

\* log.separator(): printed and mirrored only when INFO would be printed.
LogSeparator(lg) ==
  [label |-> "SEP", msg |-> "", con |-> shouldPrint(lg, "INFO"),
   file |-> shouldPrint(lg, "INFO") /\ lg.logFilePath]

\* ------------------------------------------------------------------------
\* commands.js: loadConfig
\* ------------------------------------------------------------------------

\* Whether loadConfig reaches its setLogStyle call (the file parsed and the
\* property reads did not throw).
LoadSetsStyle(doc) == doc.kind \in {"falsy", "scalar", "object"}

\* Whether loadConfig's catch branch runs (log.error, return null).
LoadThrows(doc) == doc.kind \in {"syntax", "null"}

\* Whether what loadConfig returns is truthy (`if (!raw)` is not taken).
LoadTruthy(doc) == doc.kind \in {"scalar", "object"}

\* The options loadConfig hands to setLogStyle.
LoadStyle(doc) ==
  [logLabel |-> IF doc.logLabel.t = "boolean" THEN doc.logLabel ELSE DEFAULT_CONFIG.logLabel,
   logTimestamp |-> IF doc.logTimestamp.t = "boolean" THEN doc.logTimestamp
                    ELSE DEFAULT_CONFIG.logTimestamp,
   silentLogs |-> IF doc.silentLogs.t = "boolean" THEN doc.silentLogs
                  ELSE DEFAULT_CONFIG.silentLogs,
   saveLogs |-> IF doc.saveLogs.t = "boolean" THEN doc.saveLogs ELSE DEFAULT_CONFIG.saveLogs]

\* The logger after loadConfig.
LoadLogger(lg, doc) ==
  IF LoadSetsStyle(doc) THEN setLogStyle(lg, LoadStyle(doc)) ELSE lg

\* ------------------------------------------------------------------------
\* watcher.js: buildEffectiveConfig, the derived logFile
\* ------------------------------------------------------------------------

Over(raw, key) == IF raw[key].t = "undefined" THEN DEFAULT_CONFIG[key] ELSE raw[key]

\* { ...DEFAULT_CONFIG, ...rawConfig }; the defaults for a non-object.
buildEffectiveConfig(raw) ==
  IF raw.kind # "object"
  THEN DEFAULT_CONFIG
  ELSE [watch |-> Over(raw, "watch"),
        ignore |-> Over(raw, "ignore"),
        debounceDelay |-> Over(raw, "debounceDelay"),
        restartDelay |-> Over(raw, "restartDelay"),
        logLabel |-> Over(raw, "logLabel"),
        logTimestamp |-> Over(raw, "logTimestamp"),
        silentLogs |-> Over(raw, "silentLogs"),
        saveLogs |-> Over(raw, "saveLogs")]

\* config.logFile = config.saveLogs ? <path> : null, as one more field.
WithLogFile(c) ==
  [watch |-> c.watch, ignore |-> c.ignore, debounceDelay |-> c.debounceDelay,
   restartDelay |-> c.restartDelay, logLabel |-> c.logLabel,
   logTimestamp |-> c.logTimestamp, silentLogs |-> c.silentLogs,
   saveLogs |-> c.saveLogs,
   logFile |-> IF Truthy(c.saveLogs) THEN Str(".nodelens/nodelens.txt") ELSE Null]

\* ------------------------------------------------------------------------
\* watcher.js: createProjectWatcher, the values its closure captures
\* ------------------------------------------------------------------------

DelayOr(v, dflt) == IF v.t = "number" /\ v.n >= 0 THEN v.n ELSE dflt.n

\* A variant without the appended internal entries: the user's list alone.
finalIgnoreListUserOnly(ignore) ==
  IF ignore.t = "array" THEN ignore.l ELSE <<ToStringJS(ignore)>>

\* [...userIgnoreList, ...INTERNAL_ALWAYS_IGNORE], each entry as String() gives it.
finalIgnoreList(ignore) ==
  (IF ignore.t = "array" THEN ignore.l ELSE <<ToStringJS(ignore)>>) \o INTERNAL_ALWAYS_IGNORE

\* The subscription in projectWatcher: open until close(); leftOpen counts
\* the subscriptions it replaced that were never closed.
createProjectWatcher(c) ==
  [open |-> TRUE,
   leftOpen |-> 0,
   debounceMs |-> DelayOr(c.debounceDelay, DEFAULT_CONFIG.debounceDelay),
   restartDelayMs |-> DelayOr(c.restartDelay, DEFAULT_CONFIG.restartDelay),
   ignore |-> finalIgnoreList(c.ignore),
   \* watchRegexes stays null exactly when watch === "all"
   watchAll |-> c.watch = Str("all"),
   watch |-> IF c.watch = Str("all") THEN <<>>
             ELSE IF c.watch.t = "array" THEN c.watch.l
             ELSE <<ToStringJS(c.watch)>>]

\* A variant that consults the watch list first: a path a watch matcher
\* matches is accepted whatever the ignore list says.
AcceptedWatchFirst(w, rel) ==
  /\ rel # <<>>
  /\ IF ~w.watchAll /\ SomeMatch(w.watch, rel) THEN TRUE ELSE ~SomeMatch(w.ignore, rel)

\* The handler's filter: the event on rel goes on to the debouncer.
Accepted(w, rel) ==
  /\ rel # <<>>
  /\ ~SomeMatch(w.ignore, rel)
  /\ (w.watchAll \/ SomeMatch(w.watch, rel))

\* ------------------------------------------------------------------------
\* State
\* ------------------------------------------------------------------------

VARIABLES
  effectiveConfig,      \* watcher.js: effectiveConfig
  silentOverride,       \* watcher.js: silentOverride (Null, Bool(TRUE), Bool(FALSE))
  logger,               \* logger.js: logLabel, logTimestamp, silentLogs, logFilePath
  server,               \* the child `server` refers to: "null", "running",
                        \* "killed" (sent the kill signal, not yet exited), "exited"
  orphansKilled,        \* live children `server` no longer refers to, sent the kill signal
  orphansUnkilled,      \* live children `server` no longer refers to, never sent it
  restartTimer,         \* "null", or "handle": a Timeout object, pending or not
  timers,               \* the pending timers of the restart path, in creation order
  configDebounceTimer,  \* the config watcher's timer and its handle
  projectWatcher,       \* what the current project watcher's closure captured
  configWatcher,        \* the config watcher subscription
  lastChange,           \* watcher.js: lastChange
  proc,                 \* the nodelens process: running, or exited with a code
  silentOnIssued,       \* the last `silent` command processed was `silent on`
  last                  \* the handler that ran last and what it logged

vars ==
  <<effectiveConfig, silentOverride, logger, server, orphansKilled, orphansUnkilled,
    restartTimer, timers, configDebounceTimer, projectWatcher, configWatcher,
    lastChange, proc, silentOnIssued, last>>

\* The record of a handler's run: which handler, on which path, whether it
\* went through (an accepted event, a reload that succeeded, a restart
\* executed), and the log calls in order.
NoLast == [op |-> "", path |-> <<>>, pattern |-> <<>>, ok |-> FALSE, out |-> <<>>]

Min(S) == CHOOSE x \in S : \A y \in S : x <= y

RemoveAt(seq, i) == SubSeq(seq, 1, i - 1) \o SubSeq(seq, i + 1, Len(seq))

\* ------------------------------------------------------------------------
\* Timers of the restart path
\* ------------------------------------------------------------------------

\* A pending timer: kind ("debounce", or "delay": the restart-delay one-shot),
\* rem (ms until it expires), rd (the restartDelayMs its closure captured), age
\* (ms since it was set), tracked (restartTimer refers to it), and burst:
\*   "last"        armed by the last accepted event of its burst so far
\*   "superseded"  a later event of the same burst (one that came before this
\*                 timer expired) armed another timer and this one stayed pending
\*   "void"        a config reload went through while it was pending
\*   "rs"          an rs was processed while it was pending, and no reload
\*                 has gone through since

\* setTimeout(<debounce callback>, debounceMs) by the current watcher's handler.
DebounceTimer(w) ==
  [kind |-> "debounce", rem |-> w.debounceMs, rd |-> w.restartDelayMs, age |-> 0,
   tracked |-> TRUE, burst |-> "last"]

\* A variant that stores the one-shot's handle in restartTimer, so that the
\* next clearTimeout(restartTimer) cancels it.
DelayTimerTracked(t) ==
  [kind |-> "delay", rem |-> t.rd, rd |-> t.rd, age |-> 0, tracked |-> TRUE,
   burst |-> t.burst]

\* setTimeout(doRestart, restartDelayMs): its handle is stored nowhere.
DelayTimer(t) ==
  [kind |-> "delay", rem |-> t.rd, rd |-> t.rd, age |-> 0, tracked |-> FALSE,
   burst |-> t.burst]

\* A variant that cancels every pending timer.
ClearTimeoutAll(ts) == <<>>

\* clearTimeout(restartTimer): the pending timer the handle refers to, if any.
ClearTimeout(ts) == SelectSeq(ts, LAMBDA t : ~t.tracked)

\* restartTimer = null: no pending timer is referred to any more.
Untrack(ts) == [i \in 1..Len(ts) |-> [ts[i] EXCEPT !.tracked = FALSE]]

\* An accepted event found these debounce timers still pending and not expired.
Supersede(ts) ==
  [i \in 1..Len(ts) |->
     IF ts[i].kind = "debounce" /\ ts[i].burst = "last" /\ ts[i].rem > 0
     THEN [ts[i] EXCEPT !.burst = "superseded"]
     ELSE ts[i]]

\* A config reload went through.
Void(ts) == [i \in 1..Len(ts) |-> [ts[i] EXCEPT !.burst = "void"]]

\* An rs was processed.
Respawned(ts) == [i \in 1..Len(ts) |-> [ts[i] EXCEPT !.burst = "rs"]]

\* ------------------------------------------------------------------------
\* watcher.js: startServer, server.kill(), doRestart
\* ------------------------------------------------------------------------

\* A variant that sends no signal.
KillForgotten(s) == s

\* if (server) server.kill(): the signal is sent, nothing waits for the exit.
Kill(s) == IF s = "running" THEN "killed" ELSE s

\* The bound on children alive at once.
CanSpawn == server \in {"null", "exited"} \/ orphansKilled + orphansUnkilled < MaxOrphans

\* startServer(entry) when `server` was s: the new child replaces the handle.
StartServer(s) ==
  /\ server' = "running"
  /\ orphansKilled' = orphansKilled + (IF s = "killed" THEN 1 ELSE 0)
  /\ orphansUnkilled' = orphansUnkilled + (IF s = "running" THEN 1 ELSE 0)

\* A variant that leaves the handle in restartTimer.
DoRestartKeepsHandle(ts) ==
  /\ CanSpawn
  /\ StartServer(Kill(server))
  /\ restartTimer' = restartTimer
  /\ timers' = ts

\* doRestart, with the timers ts that stay pending.
DoRestart(ts) ==
  /\ CanSpawn
  /\ StartServer(Kill(server))
  /\ restartTimer' = "null"
  /\ timers' = Untrack(ts)

\* A variant that returns without exiting.
ProcessExitIgnored(code) == [state |-> "running", code |-> code]

\* process.exit(code)
ProcessExit(code) == [state |-> "exited", code |-> code]

Running == proc.state = "running"

\* ------------------------------------------------------------------------
\* Init: the state startWatcher leaves, for each persisted document
\* ------------------------------------------------------------------------

StartConfig(doc) ==
  WithLogFile(IF LoadTruthy(doc) THEN buildEffectiveConfig(doc) ELSE DEFAULT_CONFIG)

\* The state startWatcher leaves, for a document of `docs`; `lasts` are the
\* records of what ran last.
InitWith(docs, lasts) ==
  \E doc \in docs :
    /\ effectiveConfig = StartConfig(doc)
    /\ silentOverride = Null
    /\ logger = setLogStyle(LoadLogger(LoggerInit, doc), StartConfig(doc))
    /\ server = "running"
    /\ orphansKilled = 0
    /\ orphansUnkilled = 0
    /\ restartTimer = "null"
    /\ timers = <<>>
    /\ configDebounceTimer = [handle |-> "null", armed |-> FALSE, rem |-> 0]
    /\ projectWatcher = createProjectWatcher(StartConfig(doc))
    /\ configWatcher = [open |-> TRUE]
    /\ lastChange = [file |-> <<>>, event |-> "null"]
    /\ proc = [state |-> "running", code |-> 0]
    /\ silentOnIssued = FALSE
    /\ last \in lasts

InitFrom(docs) == InitWith(docs, {[NoLast EXCEPT !.op = "startWatcher"]})

Init == InitFrom(Docs)

\* ------------------------------------------------------------------------
\* The project watcher's handler: watcher.on("all", (event, filePath) => ...)
\* ------------------------------------------------------------------------

\* chokidar's "all" events (of add, addDir, change, unlink, unlinkDir).
EventKinds == {"change", "addDir"}

\* path.relative(projectRoot, filePath), as the platform writes it.
FilePaths ==
  {"", "a.js", "src\\b.js", "dist/o.js", ".nodelens/nl.config.json", ".nodelens/nodelens.txt"}

\* The "restarting" notice: log.separator(); log.info(`Change in ...`).
RestartNotice(lg) == <<LogSeparator(lg), LogCall(lg, "INFO", "Change. Restarting...")>>

FsEvent(event, filePath) ==
  /\ Running
  /\ projectWatcher.open
  /\ LET rel == toForwardSlashes(Chars(filePath))
         w == projectWatcher
         kept == ClearTimeout(timers)
     IN IF ~Accepted(w, rel)
        THEN /\ last' = [NoLast EXCEPT !.op = "fsEvent", !.path = rel]
             /\ UNCHANGED <<restartTimer, timers, lastChange>>
        ELSE /\ Len(kept) < MaxTimers
             /\ lastChange' = IF event \in {"add", "change", "unlink"}
                              THEN [file |-> rel, event |-> event]
                              ELSE lastChange
             /\ timers' = Append(Supersede(kept), DebounceTimer(w))
             /\ restartTimer' = "handle"
             /\ last' = [NoLast EXCEPT !.op = "fsEvent", !.path = rel, !.ok = TRUE,
                                       !.out = IF restartTimer = "null"
                                               THEN RestartNotice(logger) ELSE <<>>]
  /\ UNCHANGED <<effectiveConfig, silentOverride, logger, server, orphansKilled,
                 orphansUnkilled, configDebounceTimer, projectWatcher, configWatcher,
                 proc, silentOnIssued>>

\* ------------------------------------------------------------------------
\* Timer callbacks of the restart path
\* ------------------------------------------------------------------------

\* The debounce callback: restart now, or after restartDelayMs.
FireDebounce(i) ==
  /\ Running
  /\ i \in 1..Len(timers)
  /\ timers[i].kind = "debounce"
  /\ timers[i].rem = 0
  /\ LET t == timers[i]
         rest == RemoveAt(timers, i)
         lst == [NoLast EXCEPT !.op = "fireDebounce"]
     IN IF t.rd > 0
        THEN /\ timers' = Append(rest, DelayTimer(t))
             /\ last' = lst
             /\ UNCHANGED <<server, orphansKilled, orphansUnkilled, restartTimer>>
        ELSE /\ DoRestart(rest)
             /\ last' = [lst EXCEPT !.ok = TRUE]
  /\ UNCHANGED <<effectiveConfig, silentOverride, logger, configDebounceTimer,
                 projectWatcher, configWatcher, lastChange, proc, silentOnIssued>>

\* The restart-delay one-shot: doRestart.
FireDelay(i) ==
  /\ Running
  /\ i \in 1..Len(timers)
  /\ timers[i].kind = "delay"
  /\ timers[i].rem = 0
  /\ DoRestart(RemoveAt(timers, i))
  /\ last' = [NoLast EXCEPT !.op = "fireDelay", !.ok = TRUE]
  /\ UNCHANGED <<effectiveConfig, silentOverride, logger, configDebounceTimer,
                 projectWatcher, configWatcher, lastChange, proc, silentOnIssued>>

\* ------------------------------------------------------------------------
\* Console commands: rl.on("line", ...)
\* ------------------------------------------------------------------------

\* `rs`
Rs ==
  /\ Running
  /\ CanSpawn
  /\ timers' = Respawned(ClearTimeout(timers))
  /\ StartServer(Kill(server))
  /\ last' = [NoLast EXCEPT !.op = "rs", !.ok = TRUE,
                            !.out = <<LogSeparator(logger),
                                      LogCall(logger, "INFO", "Restarting server...")>>]
  /\ UNCHANGED <<effectiveConfig, silentOverride, logger, restartTimer,
                 configDebounceTimer, projectWatcher, configWatcher, lastChange, proc,
                 silentOnIssued>>

\* A variant that leaves the subscription open.
CloseForgotten(w) == w

\* watcher.close(): the subscription delivers no more events.
Close(w) == [w EXCEPT !.open = FALSE]

\* `stop` / `x`
Stop ==
  /\ Running
  /\ projectWatcher' = Close(projectWatcher)
  /\ configWatcher' = Close(configWatcher)
  /\ server' = Kill(server)
  /\ proc' = ProcessExit(0)
  /\ last' = [NoLast EXCEPT !.op = "stop",
                            !.out = <<LogSeparator(logger),
                                      LogCall(logger, "INFO", "Stopping nodeLens...")>>]
  /\ UNCHANGED <<effectiveConfig, silentOverride, logger, orphansKilled, orphansUnkilled,
                 restartTimer, timers, configDebounceTimer, lastChange, silentOnIssued>>

\* process.on("SIGINT") and process.on("SIGTERM"): the two handlers are the
\* same.  Ctrl+C on the console (rl.on("SIGINT")) closes the console and
\* sends the process SIGINT, which runs the first.
Signals == {"SIGINT", "SIGTERM"}

Signal(sig) ==
  /\ Running
  /\ sig \in Signals
  /\ projectWatcher' = Close(projectWatcher)
  /\ configWatcher' = Close(configWatcher)
  /\ server' = Kill(server)
  /\ proc' = ProcessExit(0)
  /\ last' = [NoLast EXCEPT !.op = "signal"]
  /\ UNCHANGED <<effectiveConfig, silentOverride, logger, orphansKilled, orphansUnkilled,
                 restartTimer, timers, configDebounceTimer, lastChange, silentOnIssued>>

\* `silent on`, `silent off`, and `silent` with any other or no argument (toggle).
SilentActions == {"on", "off", "toggle"}

Silent(action) ==
  /\ Running
  /\ LET on == Truthy(effectiveConfig.silentLogs)
         change == CASE action = "on" -> ~on
                     [] action = "off" -> on
                     [] OTHER -> TRUE
         val == CASE action = "on" -> TRUE
                  [] action = "off" -> FALSE
                  [] OTHER -> ~on
         cfg == IF change THEN [effectiveConfig EXCEPT !.silentLogs = Bool(val)]
                ELSE effectiveConfig
     IN /\ effectiveConfig' = cfg
        /\ silentOverride' = IF change THEN Bool(val) ELSE silentOverride
        /\ logger' = IF change THEN setLogStyle(logger, cfg) ELSE logger
        /\ last' = [NoLast EXCEPT !.op = "silent", !.ok = change,
                                  !.out = <<LogSeparator(logger)>>]
  /\ silentOnIssued' = (action = "on")
  /\ UNCHANGED <<server, orphansKilled, orphansUnkilled, restartTimer, timers,
                 configDebounceTimer, projectWatcher, configWatcher, lastChange, proc>>

\* String.prototype.toLowerCase on ASCII letters.
UpperCase ==
  <<"A", "B", "C", "D", "E", "F", "G", "H", "I", "J", "K", "L", "M",
    "N", "O", "P", "Q", "R", "S", "T", "U", "V", "W", "X", "Y", "Z">>

LowerCase ==
  <<"a", "b", "c", "d", "e", "f", "g", "h", "i", "j", "k", "l", "m",
    "n", "o", "p", "q", "r", "s", "t", "u", "v", "w", "x", "y", "z">>

toLowerCase(cs) ==
  [i \in 1..Len(cs) |->
     IF \E k \in 1..Len(UpperCase) : UpperCase[k] = cs[i]
     THEN LowerCase[CHOOSE k \in 1..Len(UpperCase) : UpperCase[k] = cs[i]]
     ELSE cs[i]]

\* String.prototype.startsWith
startsWith(cs, prefix) ==
  Len(cs) >= Len(prefix) /\ SubSeq(cs, 1, Len(prefix)) = prefix

\* cmd.split(/\s+/): the parts between maximal runs of whitespace.
RECURSIVE split(_)
split(cs) ==
  IF \A i \in 1..Len(cs) : cs[i] # " " THEN <<cs>>
  ELSE LET k == CHOOSE i \in 1..Len(cs) :
                  cs[i] = " " /\ \A j \in 1..(i - 1) : cs[j] # " "
       IN <<SubSeq(cs, 1, k - 1)>> \o split(TrimLeft(SubSeq(cs, k, Len(cs))))

\* The branch of the silent command that parts[1] selects.
SilentAction(cmd) ==
  LET parts == split(cmd)
  IN IF Len(parts) >= 2 /\ parts[2] = Chars("on") THEN "on"
     ELSE IF Len(parts) >= 2 /\ parts[2] = Chars("off") THEN "off"
     ELSE "toggle"

\* The branch of the line handler a lower-cased line takes, in the order
\* of its `if` statements.
Branch(cmd) ==
  CASE cmd \in {Chars("clear"), Chars("cls")} -> "clear"
    [] cmd \in {Chars("help"), Chars("h"), Chars("?")} -> "help"
    [] cmd \in {Chars("status"), Chars("stats")} -> "status"
    [] cmd \in {Chars("last-change"), Chars("lc")} -> "last-change"
    [] startsWith(cmd, Chars("silent")) -> "silent"
    [] cmd = Chars("rs") -> "rs"
    [] cmd \in {Chars("stop"), Chars("x")} -> "stop"
    [] OTHER -> "unknown"

\* `status` reads effectiveConfig.ignore.join: a TypeError when ignore is
\* not an array.  Nothing catches it, so Node ends the process with code 1.
StatusThrows == effectiveConfig.ignore.t # "array"

\* The branches that change no variable of the program: clear, help,
\* status, last-change and the unknown-command notice.  `line` is the
\* trimmed input.
Utility(line, branch) ==
  /\ Running
  /\ proc' = IF branch = "status" /\ StatusThrows THEN ProcessExit(1) ELSE proc
  /\ last' = [NoLast EXCEPT
                !.op = "line", !.path = line, !.ok = (branch # "unknown"),
                !.out = CASE branch = "unknown" ->
                               <<LogSeparator(logger),
                                 LogCall(logger, "ERROR", "Command not found")>>
                          [] branch = "last-change" /\ lastChange.file = <<>> ->
                               <<LogCall(logger, "INFO", "No changes recorded yet.")>>
                          [] OTHER -> <<>>]
  /\ UNCHANGED <<effectiveConfig, silentOverride, logger, server, orphansKilled,
                 orphansUnkilled, restartTimer, timers, configDebounceTimer,
                 projectWatcher, configWatcher, lastChange, silentOnIssued>>

\* The lines typed on the console.
Lines ==
  {"", " ", "clear", "help", " Status ", "LC", "restart", "silentx", "silent loud",
   "silent on", "Silent OFF", "rs", "x"}

\* rl.on("line", input)
ConsoleLine(input) ==
  LET line == Trim(Chars(input))
      cmd == toLowerCase(line)
      branch == Branch(cmd)
  IN /\ line # <<>>
     /\ CASE branch = "silent" -> Silent(SilentAction(cmd))
          [] branch = "rs" -> Rs
          [] branch = "stop" -> Stop
          [] OTHER -> Utility(line, branch)

\* ------------------------------------------------------------------------
\* The config watcher: watcher.on("all", ...) on .nodelens, and its timer
\* ------------------------------------------------------------------------

\* The files of .nodelens an event can name.
ConfigDirFiles == {".nodelens/nl.config.json", ".nodelens/nodelens.txt"}

\* filePath.endsWith(suffix)
EndsWith(cs, suffix) ==
  /\ Len(suffix) <= Len(cs)
  /\ SubSeq(cs, Len(cs) - Len(suffix) + 1, Len(cs)) = suffix

\* A variant that takes the debounce delay of the configuration in force.
configDebounceMsCurrent ==
  DelayOr(effectiveConfig.debounceDelay, DEFAULT_CONFIG.debounceDelay)

\* The delay of the config timer: DEFAULT_CONFIG.debounceDelay when a number.
configDebounceMs ==
  IF DEFAULT_CONFIG.debounceDelay.t = "number" THEN DEFAULT_CONFIG.debounceDelay.n ELSE 200

ConfigEvent(filePath) ==
  /\ Running
  /\ configWatcher.open
  /\ configDebounceTimer' =
       IF EndsWith(Chars(filePath), Chars("nl.config.json"))
       THEN [handle |-> "handle", armed |-> TRUE, rem |-> configDebounceMs]
       ELSE configDebounceTimer
  /\ last' = [NoLast EXCEPT !.op = "configEvent", !.path = Chars(filePath)]
  /\ UNCHANGED <<effectiveConfig, silentOverride, logger, server, orphansKilled,
                 orphansUnkilled, restartTimer, timers, projectWatcher, configWatcher,
                 lastChange, proc, silentOnIssued>>

\* What the reload logs before it decides: the notice, loadConfig's error.
ReloadPrologue(lg, doc) ==
  <<LogSeparator(lg), LogCall(lg, "INFO", "nl.config.json changed. Reloading config...")>>
  \o (IF LoadThrows(doc) THEN <<LogCall(lg, "ERROR", "Failed to parse nl.config.json")>>
      ELSE <<>>)

\* The new effective configuration of a reload that goes through.
ReloadedConfig(doc, override) ==
  LET built == buildEffectiveConfig(doc)
  IN WithLogFile(IF override # Null THEN [built EXCEPT !.silentLogs = override]
                 ELSE built)

\* A variant that keeps the project watcher it finds.
onConfigUpdateKeepsWatcher(newConfig) ==
  /\ timers' = Void(ClearTimeout(timers))
  /\ projectWatcher' = projectWatcher

\* A variant that replaces the project watcher without closing it.
onConfigUpdateNoClose(newConfig) ==
  /\ timers' = Void(ClearTimeout(timers))
  /\ projectWatcher' = [createProjectWatcher(newConfig) EXCEPT
                          !.leftOpen = projectWatcher.leftOpen
                                       + (IF projectWatcher.open THEN 1 ELSE 0)]

\* onReload(newConfig): the callback startWatcher hands to createConfigWatcher.
\* It closes the project watcher, then replaces it.
onConfigUpdate(newConfig) ==
  /\ timers' = Void(ClearTimeout(timers))
  /\ projectWatcher' = [createProjectWatcher(newConfig) EXCEPT
                          !.leftOpen = projectWatcher.leftOpen
                                       + (IF Close(projectWatcher).open THEN 1 ELSE 0)]

\* The config timer's callback, with the document loadConfig finds.
ConfigReload(doc) ==
  /\ Running
  /\ configDebounceTimer.armed
  /\ configDebounceTimer.rem = 0
  /\ LET loaded == LoadLogger(logger, doc)
     IN IF ~LoadTruthy(doc)
        THEN \* log.warn, return: the handle stays in configDebounceTimer
             /\ logger' = loaded
             /\ configDebounceTimer' = [handle |-> "handle", armed |-> FALSE, rem |-> 0]
             /\ last' = [NoLast EXCEPT
                           !.op = "configReload",
                           !.out = ReloadPrologue(logger, doc)
                                   \o <<LogCall(loaded, "WARN", "Config unreadable. Keeping previous...")>>]
             /\ UNCHANGED <<effectiveConfig, timers, projectWatcher>>
        ELSE LET cfg == ReloadedConfig(doc, silentOverride)
             IN /\ logger' = setLogStyle(loaded, cfg)
                /\ effectiveConfig' = cfg
                /\ onConfigUpdate(cfg)
                /\ configDebounceTimer' = [handle |-> "null", armed |-> FALSE, rem |-> 0]
                /\ last' = [NoLast EXCEPT !.op = "configReload", !.ok = TRUE,
                                          !.out = ReloadPrologue(logger, doc)]
  /\ UNCHANGED <<silentOverride, server, orphansKilled, orphansUnkilled, restartTimer,
                 configWatcher, lastChange, proc, silentOnIssued>>

\* ------------------------------------------------------------------------
\* A child's exit: server.on("exit", (code, signal) => ...)
\* ------------------------------------------------------------------------

\* The (code, signal) pairs of an exit event: code 0, a code other than 0,
\* and ended by a signal (the code is then null).
ExitKinds ==
  { [code |-> Num(0), signal |-> Null],
    [code |-> Num(1), signal |-> Null],
    [code |-> Null, signal |-> Str("SIGTERM")] }

\* Which live child exits: the one `server` refers to, or an older one.
Children == {"server", "orphanKilled", "orphanUnkilled"}

\* A variant that looks at the code alone.
CrashNoticeCodeOnly(lg, how) ==
  IF how.code # Num(0)
  THEN <<LogSeparator(lg), LogCall(lg, "ERROR", "Server crashed. Waiting for changes...")>>
  ELSE <<>>

\* if (!signal && code !== 0): the crash notice.
CrashNotice(lg, how) ==
  IF ~Truthy(how.signal) /\ how.code # Num(0)
  THEN <<LogSeparator(lg), LogCall(lg, "ERROR", "Server crashed. Waiting for changes...")>>
  ELSE <<>>

ChildExit(child, how) ==
  /\ Running
  /\ CASE child = "server" ->
            /\ server \in {"running", "killed"}
            /\ server' = "exited"
            /\ UNCHANGED <<orphansKilled, orphansUnkilled>>
       [] child = "orphanKilled" ->
            /\ orphansKilled > 0
            /\ orphansKilled' = orphansKilled - 1
            /\ UNCHANGED <<server, orphansUnkilled>>
       [] child = "orphanUnkilled" ->
            /\ orphansUnkilled > 0
            /\ orphansUnkilled' = orphansUnkilled - 1
            /\ UNCHANGED <<server, orphansKilled>>
  /\ last' = [NoLast EXCEPT !.op = "childExit", !.out = CrashNotice(logger, how)]
  /\ UNCHANGED <<effectiveConfig, silentOverride, logger, restartTimer, timers,
                 configDebounceTimer, projectWatcher, configWatcher, lastChange, proc,
                 silentOnIssued>>

\* ------------------------------------------------------------------------
\* The passing of time
\* ------------------------------------------------------------------------

\* The remaining times of every pending timer.
PendingRems ==
  {timers[i].rem : i \in 1..Len(timers)}
  \cup (IF configDebounceTimer.armed THEN {configDebounceTimer.rem} ELSE {})

\* Time passes, by TickMs or up to the next expiry; a due timer's callback
\* runs before more time passes.
Advance ==
  /\ Running
  /\ PendingRems # {}
  /\ LET d == Min({TickMs} \cup PendingRems)
     IN /\ d > 0
        /\ timers' = [i \in 1..Len(timers) |->
                        [timers[i] EXCEPT !.rem = @ - d, !.age = @ + d]]
        /\ configDebounceTimer' =
             IF configDebounceTimer.armed
             THEN [configDebounceTimer EXCEPT !.rem = @ - d]
             ELSE configDebounceTimer
        /\ last' = [NoLast EXCEPT !.op = "advance"]
  /\ UNCHANGED <<effectiveConfig, silentOverride, logger, server, orphansKilled,
                 orphansUnkilled, restartTimer, projectWatcher, configWatcher,
                 lastChange, proc, silentOnIssued>>

\* ------------------------------------------------------------------------
\* Specification
\* ------------------------------------------------------------------------

\* The whole program, every input.
Next ==
  \/ \E event \in EventKinds, filePath \in FilePaths : FsEvent(event, filePath)
  \/ \E i \in 1..MaxTimers : FireDebounce(i)
  \/ \E i \in 1..MaxTimers : FireDelay(i)
  \/ Rs
  \/ Stop
  \/ \E sig \in Signals : Signal(sig)
  \/ \E action \in SilentActions : Silent(action)
  \/ \E input \in Lines : ConsoleLine(input)
  \/ \E filePath \in ConfigDirFiles : ConfigEvent(filePath)
  \/ \E doc \in Docs : ConfigReload(doc)
  \/ \E child \in Children, how \in ExitKinds : ChildExit(child, how)
  \/ Advance

Spec == Init /\ [][Next]_vars

\* The restart path: one watched file, the default delays and the two-tick
\* delays, at startup and on reload, and a reload that fails.
RestartDocs == {DocEmpty, DocSlow}

NextRestart ==
  \/ \E event \in EventKinds : FsEvent(event, "a.js")
  \/ \E i \in 1..MaxTimers : FireDebounce(i)
  \/ \E i \in 1..MaxTimers : FireDelay(i)
  \/ Rs
  \/ Stop
  \/ ConfigEvent(".nodelens/nl.config.json")
  \/ \E doc \in RestartDocs \cup {DocMissing} : ConfigReload(doc)
  \/ \E child \in Children, how \in ExitKinds : ChildExit(child, how)
  \/ Advance

SpecRestart == InitFrom(RestartDocs) /\ [][NextRestart]_vars

\* The event filter: every path, and every watch and ignore list at startup
\* and on reload.  These documents leave restartDelay at 0, so that no
\* restart-delay one-shot is ever set and FireDelay has nothing to fire.
MatchDocs == {DocEmpty, DocBoth, DocOpen, DocMalformed}

NextMatch ==
  \/ \E event \in EventKinds, filePath \in FilePaths : FsEvent(event, filePath)
  \/ \E i \in 1..MaxTimers : FireDebounce(i)
  \/ Rs
  \/ Stop
  \/ \E sig \in Signals : Signal(sig)
  \/ ConfigEvent(".nodelens/nl.config.json")
  \/ \E doc \in MatchDocs \cup {DocMissing} : ConfigReload(doc)
  \/ \E child \in Children, how \in ExitKinds : ChildExit(child, how)
  \/ Advance

SpecMatch == InitFrom(MatchDocs) /\ [][NextMatch]_vars

\* The swap of the project watcher: started with the slow delays and no
\* lists, reloaded with either document, events on a path both accept and
\* on one only the first accepts.
SwapDocs == {DocSlow, DocBoth}

SwapPaths == {"a.js", "src\\b.js"}

NextSwap ==
  \/ \E filePath \in SwapPaths : FsEvent("change", filePath)
  \/ \E i \in 1..MaxTimers : FireDebounce(i)
  \/ \E i \in 1..MaxTimers : FireDelay(i)
  \/ ConfigEvent(".nodelens/nl.config.json")
  \/ \E doc \in SwapDocs \cup {DocMissing} : ConfigReload(doc)
  \/ \E child \in Children : ChildExit(child, [code |-> Num(0), signal |-> Null])
  \/ Advance

SpecSwap == InitFrom({DocSlow}) /\ [][NextSwap]_vars

\* The pattern matcher alone: every pattern and every path over these
\* characters (none is a line terminator, which `.` would not match).
PatternChars == {"a", ".", "*", " "}

PathChars == {"a", ".", "/", " "}

\* The strings of at most n characters over a set of characters.
Strings(chars, n) == UNION {[1..k -> chars] : k \in 0..n}

\* A pattern and a path yet to be tested.
TestInputs ==
  {[NoLast EXCEPT !.op = "input", !.pattern = pattern, !.path = rel] :
     pattern \in Strings(PatternChars, MaxPatternLen), rel \in Strings(PathChars, MaxPathLen)}

\* re = patternToRegExp(pattern); re.test(rel)
PatternTest ==
  /\ Running
  /\ last.op = "input"
  /\ last' = [last EXCEPT !.op = "test", !.ok = Test(Compile(last.pattern), last.path)]
  /\ UNCHANGED <<effectiveConfig, silentOverride, logger, server, orphansKilled,
                 orphansUnkilled, restartTimer, timers, configDebounceTimer,
                 projectWatcher, configWatcher, lastChange, proc, silentOnIssued>>

NextGlob == PatternTest

SpecGlob == InitWith({DocEmpty}, TestInputs) /\ [][NextGlob]_vars

\* Configuration: every document at startup and on reload, every console
\* line, and the signals.
NextConfig ==
  \/ \E action \in SilentActions : Silent(action)
  \/ \E input \in Lines : ConsoleLine(input)
  \/ \E sig \in Signals : Signal(sig)
  \/ \E filePath \in ConfigDirFiles : ConfigEvent(filePath)
  \/ \E doc \in Docs : ConfigReload(doc)
  \/ Advance

SpecConfig == Init /\ [][NextConfig]_vars

\* ------------------------------------------------------------------------
\* Properties of the restart path (under SpecRestart)
\* ------------------------------------------------------------------------

\* A debounce timer armed by the latest accepted event is pending and has
\* not expired: the next accepted event belongs to the same burst.
InBurst ==
  \E i \in 1..Len(timers) :
    timers[i].kind = "debounce" /\ timers[i].burst = "last" /\ timers[i].rem > 0

\* C1: debounce coalescing.  In a burst of accepted events, each less than
\* debounceDelayMs after the one before, with no rs, stop or reload between,
\* only the timer of the last event fires: a debounce timer that expires was
\* never followed, while it was pending, by a later event of its burst.
C1OnlyLastTimerFires ==
  [][\A i \in 1..MaxTimers : FireDebounce(i) => timers[i].burst # "superseded"]_vars

\* C2: at most one scheduled restart (debounce timer or restart-delay
\* one-shot) is pending in every reachable state.
C2AtMostOnePending == Len(timers) <= 1

\* The children alive: the one `server` refers to until its exit event, and
\* the older ones.
AliveChildren ==
  (IF server \in {"running", "killed"} THEN 1 ELSE 0) + orphansKilled + orphansUnkilled

\* The children alive that were never sent the kill signal.
AliveUnkilled == (IF server = "running" THEN 1 ELSE 0) + orphansUnkilled

\* C3, as stated: at most one child is alive in every reachable state.
C3AtMostOneAlive == AliveChildren <= 1

\* C3, as the code has it: at most one alive child has not been sent the
\* kill signal, and it is the one `server` refers to; every older child
\* still alive was sent it before its successor was spawned.
C3AtMostOneUnkilled == AliveUnkilled <= 1 /\ orphansUnkilled = 0

\* C3 witness: a restart spawned a child while its predecessor, sent the kill
\* signal, had not yet exited.
C3TwoAlive == server = "running" /\ orphansKilled >= 1 /\ last.op \in {"rs", "fireDebounce", "fireDelay"}

\* The step is a run of the project watcher's handler on an event it accepts.
AcceptedEventStep == last'.op = "fsEvent" /\ last'.ok

\* C4: the "restarting" notice is logged by an accepted event exactly when
\* that event is the first of its burst.
C4NoticeOncePerBurst ==
  [][AcceptedEventStep => ((last'.out # <<>>) <=> ~InBurst)]_vars

\* The restart-delay one-shots among ts, in creation order.
IsDelay(t) == t.kind = "delay"
DelayTimers(ts) == SelectSeq(ts, IsDelay)

\* C5: a debounce timer that expires with restartDelayMs > 0 restarts nothing
\* and sets a one-shot of restartDelayMs; the one-shot restarts when exactly
\* restartDelayMs have passed; an accepted event in between leaves every
\* pending one-shot as it was; with restartDelayMs = 0 the expiry itself
\* restarts.
C5DelayIsOneShot ==
  [][/\ \A i \in 1..MaxTimers :
          FireDebounce(i) =>
            IF timers[i].rd > 0
            THEN /\ UNCHANGED <<server, orphansKilled, orphansUnkilled>>
                 /\ Len(DelayTimers(timers')) = Len(DelayTimers(timers)) + 1
                 /\ timers'[Len(timers')].kind = "delay"
                 /\ timers'[Len(timers')].rem = timers[i].rd
                 /\ timers'[Len(timers')].age = 0
            ELSE /\ server' = "running"
                 /\ AliveChildren' = AliveChildren + 1
     /\ \A i \in 1..MaxTimers :
          FireDelay(i) =>
            /\ timers[i].age = timers[i].rd
            /\ server' = "running"
            /\ AliveChildren' = AliveChildren + 1
            /\ DelayTimers(timers') = DelayTimers(RemoveAt(timers, i))
     /\ AcceptedEventStep => DelayTimers(timers') = DelayTimers(timers)]_vars

\* C5 witness: a one-shot has just restarted the child, restartDelayMs after
\* it was set, and a debounce timer armed during that delay is still pending.
C5RestartAfterEventInDelay ==
  /\ last.op = "fireDelay"
  /\ last.ok
  /\ \E i \in 1..Len(timers) :
       timers[i].kind = "debounce" /\ timers[i].rd > 0 /\ timers[i].age < timers[i].rd

\* The log calls of a label among labels in out.
Calls(out, labels) == Cardinality({i \in 1..Len(out) : out[i].label \in labels})

\* C12: a child's exit logs one error, printed to the console, when the
\* signal is absent and the code is not 0, and none otherwise; it leaves the
\* watchers, the timers and the configuration as they were.
C12CrashNoticeIffCrash ==
  [][\A child \in Children, how \in ExitKinds :
       ChildExit(child, how) =>
         /\ Calls(last'.out, {"ERROR"}) =
              (IF how.signal = Null /\ how.code # Num(0) THEN 1 ELSE 0)
         /\ Calls(last'.out, {"WARN", "INFO", "SUCCESS"}) = 0
         /\ \A i \in 1..Len(last'.out) : last'.out[i].label = "ERROR" => last'.out[i].con
         /\ UNCHANGED <<projectWatcher, configWatcher, restartTimer, timers,
                        configDebounceTimer, effectiveConfig, logger, proc>>]_vars

\* C12 witness: the current child crashed while a debounce timer was armed;
\* the notice was logged, the timer and the watcher are as before.
C12CrashedWhileArmed ==
  /\ last.op = "childExit"
  /\ Calls(last.out, {"ERROR"}) = 1
  /\ server = "exited"
  /\ projectWatcher.open
  /\ \E i \in 1..Len(timers) : timers[i].kind = "debounce" /\ timers[i].tracked

\* C16: a reload that goes through while the restart timer is armed does not
\* lose the pending restart: every timer pending before the reload is still
\* pending after it, so the restart it leads to still executes.
C16ReloadKeepsPendingRestart ==
  [][(last'.op = "configReload" /\ last'.ok) => Len(timers') = Len(timers)]_vars

\* C18: when a restart executes because a debounce timer fired, the
\* ChangeRecord is that of the accepted event that armed the timer: it holds
\* a path and one of the kinds add, change, unlink, never the empty record
\* of startup.
C18RestartHasChangeRecord ==
  [][(last'.op = "fireDebounce" /\ last'.ok)
       => (lastChange.file # <<>> /\ lastChange.event \in {"add", "change", "unlink"})]_vars

\* C21: rs and a reload that goes through cancel an armed debounce timer
\* outright: a debounce timer that fires was not pending when an rs or such
\* a reload was processed.
C21CancelledTimerNeverFires ==
  [][\A i \in 1..MaxTimers : FireDebounce(i) => timers[i].burst \notin {"void", "rs"}]_vars

\* C22: a debouncer that has fired continues to completion across a reload:
\* a reload that goes through leaves every pending restart-delay one-shot
\* pending with its time to run unchanged, and a one-shot that was pending
\* through a reload restarts the child once when it fires: one
\* child more, and the one-shot is gone.
C22DelaySurvivesReload ==
  [][/\ (last'.op = "configReload" /\ last'.ok)
          => /\ Len(DelayTimers(timers')) = Len(DelayTimers(timers))
             /\ \A k \in 1..Len(DelayTimers(timers)) :
                  /\ DelayTimers(timers')[k].rem = DelayTimers(timers)[k].rem
                  /\ DelayTimers(timers')[k].age = DelayTimers(timers)[k].age
                  /\ DelayTimers(timers')[k].rd = DelayTimers(timers)[k].rd
     /\ \A i \in 1..MaxTimers :
          (FireDelay(i) /\ timers[i].burst = "void")
            => /\ server' = "running"
               /\ AliveChildren' = AliveChildren + 1
               /\ Len(DelayTimers(timers')) = Len(DelayTimers(timers)) - 1]_vars

\* C22 witness: a reload has just gone through while a restart-delay
\* one-shot was running, and the one-shot is still pending.
C22ReloadedDuringDelay ==
  /\ last.op = "configReload"
  /\ last.ok
  /\ \E i \in 1..Len(timers) :
       /\ timers[i].kind = "delay" /\ timers[i].burst = "void"
       /\ timers[i].age > 0 /\ timers[i].rem > 0

\* The debounce delays of the watchers this specification creates.
DebounceDelays ==
  {createProjectWatcher(StartConfig(doc)).debounceMs : doc \in RestartDocs}

C24DirectoryEventsArmNothing ==
  [][\A event \in EventKinds \ {"add", "change", "unlink"} :
       FsEvent(event, "a.js") => UNCHANGED <<timers, restartTimer>>]_vars

\* C27: restartTimer reflects the debouncer: it is non-null exactly when a
\* debounce timer or a restart-delay one-shot is pending.
C27RestartTimerReflectsState == (restartTimer # "null") <=> (timers # <<>>)

\* C28: after an rs nothing spawns a child until a new accepted event or
\* another rs: a timer that was pending when the rs was processed, debounce
\* timer or restart-delay one-shot, does not fire afterwards.
C28NoSpawnAfterRs ==
  [][\A i \in 1..MaxTimers : (FireDebounce(i) \/ FireDelay(i)) => timers[i].burst # "rs"]_vars

\* C10: stop exits the process with code 0, and no handler runs after it: no
\* pending timer fires, no child is spawned.
C10StopEndsEverything ==
  [][/\ last.op # "stop"
     /\ Stop => (proc'.state = "exited" /\ proc'.code = 0 /\ server' # "running")]_vars

\* C10 witness: the process exited on stop with a debounce timer armed and a
\* restart-delay one-shot in flight.
C10StoppedWithTimersPending ==
  /\ last.op = "stop"
  /\ proc.state = "exited"
  /\ \E i, j \in 1..Len(timers) : timers[i].kind = "debounce" /\ timers[j].kind = "delay"

\* ------------------------------------------------------------------------
\* Properties of the event filter (under SpecMatch)
\* ------------------------------------------------------------------------

\* The step is a run of the project watcher's handler; last'.path is the
\* relative path of its event.
EventStep == last'.op = "fsEvent"

\* C6: ignoring wins over watching.  An event whose relative path matches an
\* ignore matcher of the current watcher arms no timer and leaves the
\* ChangeRecord alone, whatever the watch list says.
C6IgnoreWins ==
  [][(EventStep /\ SomeMatch(projectWatcher.ignore, last'.path))
       => (~last'.ok /\ UNCHANGED <<timers, restartTimer, lastChange>>)]_vars

\* C6 witness: an event on a path that a watch matcher and an ignore matcher
\* both match was rejected.
C6BothMatchRejected ==
  /\ last.op = "fsEvent"
  /\ ~last.ok
  /\ ~projectWatcher.watchAll
  /\ SomeMatch(projectWatcher.watch, last.path)
  /\ SomeMatch(projectWatcher.ignore, last.path)

\* The relative paths of the tool's own files.
OwnPaths == {toForwardSlashes(Chars(f)) : f \in ConfigDirFiles}

\* C7: an event on one of the tool's own files arms no timer, leaves the
\* ChangeRecord alone and restarts nothing, whatever the configuration.
C7OwnFilesIgnored ==
  [][(EventStep /\ last'.path \in OwnPaths)
       => /\ ~last'.ok
          /\ UNCHANGED <<timers, restartTimer, lastChange, server, orphansKilled,
                         orphansUnkilled>>]_vars

\* C7 witness: an event on the config file was rejected while the user's
\* ignore list was empty and a watch matcher matched the path.
C7OwnFileRejectedEmptyIgnore ==
  /\ last.op = "fsEvent"
  /\ ~last.ok
  /\ last.path = Chars(".nodelens/nl.config.json")
  /\ effectiveConfig.ignore = List(<<>>)
  /\ SomeMatch(projectWatcher.watch, last.path)

\* C11: on stop, SIGINT and SIGTERM alike, the handler closes the current
\* project watcher and the config watcher and sends the current child the
\* kill signal in the step in which the process exits.
C11TerminationClosesAll ==
  [][(last'.op \in {"stop", "signal"})
       => /\ ~projectWatcher'.open
          /\ ~configWatcher'.open
          /\ server' = Kill(server)
          /\ server' # "running"
          /\ proc'.state = "exited"]_vars

\* C11 witness: a signal ended the process while the child ran, a restart
\* timer was armed and an older child had not yet exited.
C11SignalWhileRunning ==
  /\ last.op = "signal"
  /\ proc.state = "exited"
  /\ server = "killed"
  /\ orphansKilled >= 1
  /\ timers # <<>>
  /\ ~projectWatcher.open
  /\ ~configWatcher.open

\* ------------------------------------------------------------------------
\* Properties of the rebuilt project watcher (under SpecSwap)
\* ------------------------------------------------------------------------

\* C25: after a reload that goes through, events are handled with the new
\* configuration only.  Such a reload installs the watcher built from the
\* document it read; every event is accepted exactly when the matchers of
\* the configuration in force accept its path; and the timer an accepted
\* event arms has the debounce delay of that configuration and carries its
\* restart delay.
C25EventsUseNewConfig ==
  [][/\ \A doc \in SwapDocs :
          ConfigReload(doc)
            => /\ projectWatcher'.open
               /\ projectWatcher'.ignore = finalIgnoreList(Over(doc, "ignore"))
               /\ projectWatcher'.watchAll = (Over(doc, "watch") = Str("all"))
               /\ projectWatcher'.debounceMs = Over(doc, "debounceDelay").n
               /\ projectWatcher'.restartDelayMs = Over(doc, "restartDelay").n
     /\ EventStep
          => LET w == createProjectWatcher(effectiveConfig)
             IN /\ last'.ok = Accepted(w, last'.path)
                /\ last'.ok => /\ timers'[Len(timers')].kind = "debounce"
                               /\ timers'[Len(timers')].rem = w.debounceMs
                               /\ timers'[Len(timers')].rd = w.restartDelayMs]_vars

\* C25 witness: started with no lists and the slow delays, reloaded with
\* `watch *.js, ignore src/*` and the default delays: an event on src/b.js
\* has just been rejected, after one on a.js armed a timer of the default
\* debounce delay with no restart delay.
C25RejectedByNewMatchers ==
  /\ last.op = "fsEvent" /\ ~last.ok
  /\ last.path = Chars("src/b.js")
  /\ effectiveConfig.ignore = DocBoth.ignore
  /\ \E i \in 1..Len(timers) :
       /\ timers[i].kind = "debounce" /\ timers[i].tracked
       /\ timers[i].age + timers[i].rem = DEFAULT_CONFIG.debounceDelay.n
       /\ timers[i].rd = 0

\* C26: the two timer domains are independent.  An accepted project event
\* leaves the config timer as it was; an event on the config file leaves
\* restartTimer and the pending restart timers as they were, and arms the
\* config timer with the default debounce delay, whatever debounce delay
\* the configuration in force holds.
C26TimerDomainsIndependent ==
  [][/\ AcceptedEventStep => UNCHANGED configDebounceTimer
     /\ (last'.op = "configEvent")
          => /\ UNCHANGED <<timers, restartTimer>>
             /\ configDebounceTimer'.armed
             /\ configDebounceTimer'.rem = DEFAULT_CONFIG.debounceDelay.n]_vars

\* C26 witness: the configuration in force has a debounce delay of 450 ms,
\* a project timer armed with it is pending, and an event on the config
\* file has just armed the config timer with 225 ms.
C26BothTimersArmed ==
  /\ last.op = "configEvent"
  /\ effectiveConfig.debounceDelay = Num(450)
  /\ configDebounceTimer.armed /\ configDebounceTimer.rem = 225
  /\ \E i \in 1..Len(timers) :
       timers[i].kind = "debounce" /\ timers[i].tracked /\ timers[i].rem = 450

\* ------------------------------------------------------------------------
\* Properties of the pattern matcher (under SpecGlob)
\* ------------------------------------------------------------------------

\* The segments of a pattern between its `*`s.
RECURSIVE Segments(_)
Segments(cs) ==
  IF ~HasStar(cs) THEN <<cs>>
  ELSE LET k == CHOOSE i \in 1..Len(cs) : cs[i] = "*" /\ \A j \in 1..(i - 1) : cs[j] # "*"
       IN <<SubSeq(cs, 1, k - 1)>> \o Segments(SubSeq(cs, k + 1, Len(cs)))

\* cs, from position `from` on, contains the segments as substrings, in
\* order and without overlap.
RECURSIVE InOrder(_, _, _)
InOrder(segs, cs, from) ==
  \/ segs = <<>>
  \/ \E i \in from..(Len(cs) + 1 - Len(Head(segs))) :
       /\ SubSeq(cs, i, i + Len(Head(segs)) - 1) = Head(segs)
       /\ InOrder(Tail(segs), cs, i + Len(Head(segs)))

\* C19, as stated: a pattern containing `*` matches a path iff the path
\* contains the pattern's non-`*` segments, as literal substrings, in order.
C19GlobIsSegmentsInOrder ==
  (last.op = "test" /\ HasStar(last.pattern))
    => (last.ok <=> InOrder(Segments(last.pattern), last.path, 1))

\* C19, amended: a pattern containing `*` matches a path iff the path
\* contains, as literal substrings and in order, the non-`*` segments of the
\* pattern with the white space at its two ends removed.
C19GlobIsTrimmedSegmentsInOrder ==
  (last.op = "test" /\ HasStar(last.pattern))
    => (last.ok <=> InOrder(Segments(Trim(last.pattern)), last.path, 1))

\* `*. ` was tested against `a.`: the `.` is literal, the blank is dropped.
C19TrimmedGlobMatched ==
  /\ last.op = "test" /\ last.ok
  /\ last.pattern = <<"*", ".", " ">>
  /\ last.path = <<"a", ".">>

\* C30: exactly one project watcher subscription is open while the process
\* runs.  The subscription in projectWatcher is open and none it replaced
\* was left open; a reload that goes through closes the one it finds and
\* installs a new one, a reload that fails leaves it; and only an open
\* subscription hands an event to the debouncer.
C30OneProjectWatcherOpen ==
  [][/\ Running' => (projectWatcher'.open /\ projectWatcher'.leftOpen = 0)
     /\ (last'.op = "configReload" /\ ~last'.ok) => UNCHANGED projectWatcher
     /\ EventStep => projectWatcher.open]_vars

\* C30 witness: a reload has just gone through and installed a watcher with
\* a watch list; it is open and is the only one.
C30WatcherReplaced ==
  /\ last.op = "configReload" /\ last.ok
  /\ projectWatcher.open /\ projectWatcher.leftOpen = 0
  /\ ~projectWatcher.watchAll

\* ------------------------------------------------------------------------
\* Properties of configuration reloads (under SpecConfig)
\* ------------------------------------------------------------------------

\* The documents that are no configuration: no file, a file that does not
\* parse, and a file that holds null or a scalar instead of an object.
InvalidDocs == {DocMissing, DocSyntax, DocNull, DocFalsy, DocScalar}

\* The step logged the "keeping previous config" warning.
WarnedKeeping ==
  \E i \in 1..Len(last'.out) : last'.out[i].label = "WARN"

\* C8: a reload that finds no usable document leaves effectiveConfig as it
\* was and logs a warning.
C8FailedReloadKeepsConfig ==
  [][\A doc \in InvalidDocs :
       ConfigReload(doc) => (effectiveConfig' = effectiveConfig /\ WarnedKeeping)]_vars

\* C9: while the last silent command processed is `silent on`, every reload
\* that goes through leaves silentLogs = true.
C9SilentOnSurvivesReload ==
  [][(last'.op = "configReload" /\ last'.ok /\ silentOnIssued)
       => effectiveConfig'.silentLogs = Bool(TRUE)]_vars

\* C13: every recoverable error gives exactly one error- or warn-level log
\* call: a reload that finds a document that does not parse, and a console
\* line that is no command, each log one such line, never none and never two.
C13OneLeveledLinePerError ==
  [][(ConfigReload(DocSyntax) \/ (last'.op = "line" /\ ~last'.ok))
       => Calls(last'.out, {"ERROR", "WARN"}) = 1]_vars

\* C14: nothing but stop / x, SIGINT and SIGTERM ends the process: whatever
\* parseable document was loaded and whatever was typed, the process has
\* exited only if the last step was one of those, with exit code 0.
C14ExitsOnlyOnRequest ==
  proc.state = "exited" => (last.op \in {"stop", "signal"} /\ proc.code = 0)

\* C15: the effective configuration never holds a malformed value: the two
\* delays are numbers >= 0, ignore is a list, watch is "all" or a list, and
\* silentLogs and saveLogs are booleans.
C15EffectiveConfigValid ==
  /\ effectiveConfig.debounceDelay.t = "number" /\ effectiveConfig.debounceDelay.n >= 0
  /\ effectiveConfig.restartDelay.t = "number" /\ effectiveConfig.restartDelay.n >= 0
  /\ effectiveConfig.ignore.t = "array"
  /\ (effectiveConfig.watch = Str("all") \/ effectiveConfig.watch.t = "array")
  /\ effectiveConfig.silentLogs.t = "boolean"
  /\ effectiveConfig.saveLogs.t = "boolean"

\* C17: a non-empty trimmed line that is not one of the commands (compared
\* in lower case) gives one error notice naming the line and changes nothing
\* else: child, timers, watchers, configuration, silent override and logger
\* are as before and the process keeps running.
C17UnknownLineOnlyNotice ==
  [][\A input \in Lines :
       LET line == Trim(Chars(input))
           commands == {Chars("clear"), Chars("cls"), Chars("help"), Chars("h"),
                        Chars("?"), Chars("status"), Chars("stats"),
                        Chars("last-change"), Chars("lc"), Chars("silent"),
                        Chars("silent on"), Chars("silent off"), Chars("rs"),
                        Chars("stop"), Chars("x")}
       IN (ConsoleLine(input) /\ toLowerCase(line) \notin commands)
            => /\ last'.op = "line" /\ last'.path = line
               /\ Calls(last'.out, {"ERROR"}) = 1
               /\ UNCHANGED <<effectiveConfig, silentOverride, logger, server,
                              orphansKilled, orphansUnkilled, restartTimer, timers,
                              configDebounceTimer, projectWatcher, configWatcher,
                              proc>>]_vars

C29LoggerSilentIsConfigSilent ==
  effectiveConfig.silentLogs.t = "boolean"
    => (logger.silentLogs <=> effectiveConfig.silentLogs.b)

====
